---- MODULE Spec2Model ----
(***************************************************************************)
(* Model of pyqemu's device-catalog introspection:                         *)
(*   - QEMUGeneratedDevicePropertiesExtractor, the five-state scanner that *)
(*     turns one line of `-device help` output into a name/value mapping   *)
(*     (src/src/generated_devices_props_extractor.py);                     *)
(*   - QEMUFilesGenerator._extract_devices / generate_devices_file, which  *)
(*     group the lines into sections and classify each parsed mapping      *)
(*     (src/src/files_generator.py).                                       *)
(*                                                                         *)
(* A Python str is a sequence of one-character strings.  An optional       *)
(* value (str | None) is NoneVal (the empty tuple) or Some(x) (the         *)
(* one-element tuple holding x), so that None and "" stay different.       *)
(* A Python dict is the sequence of its <<key, value>> items in insertion  *)
(* order.                                                                  *)
(***************************************************************************)
EXTENDS Integers, Sequences, FiniteSets, TLC

VARIABLES
    parsers,      \* instance id -> the fields of that extractor object
    heap,         \* dict objects: reference -> items
    returned,     \* instance id -> NoneVal, or Some(reference run() returned)
    input,        \* instance id -> how the line given to __init__ was made
    trace,        \* history: instance id -> current_state after each character
    commits,      \* history: instance id -> the pairs stored by run() and the index
                  \* of the character that completed each, in order
    calls,        \* instance id -> where its run() call stands: pc and loop index
    output,             \* the lines the launcher printed for -device help
    gen_pc,             \* where generate_devices_file stands
    lines,              \* _extract_devices: lines
    line_index,         \* _extract_devices: lines already taken by the for loop
    current_section,    \* _extract_devices: NoneVal, or Some(place in generated_sections)
    generated_sections, \* _extract_devices: generated_sections
    devices_sections,   \* generate_devices_file: NoneVal until _extract_devices returns
    bus_file_text,      \* generate_devices_file: NoneVal until generated
    devices_file_text,  \* generate_devices_file: NoneVal until generated
    error,              \* NoneVal, or Some(the exception that left generate_devices_file)
    file,               \* the output file: whether it was opened, and what was written
    drives,             \* QEMUOptions: __drives
    boot_order,         \* QEMUOptions: __boot_order
    cores,              \* QEMUOptions: __cores
    ram_size,           \* QEMUOptions: __ram_size
    acceleration_mode,  \* QEMUOptions: __acceleration_mode
    processor,          \* QEMUOptions: __processor
    qemu_path,          \* QEMUOptions: __qemu_path
    issued,             \* history: the ids add_cdrom and add_hard_drive returned, in order
    orders,             \* history: the arguments of the set_boot_order calls, in order
    command             \* NoneVal, or Some(what to_command_line returned)

parserVars == <<parsers, heap, returned, input, trace, commits, calls>>

extractVars == <<output, gen_pc, lines, line_index, current_section, generated_sections,
                 devices_sections, bus_file_text, devices_file_text, error, file>>

optionVars == <<drives, boot_order, cores, ram_size, acceleration_mode, processor,
                qemu_path, issued, orders, command>>

vars == <<parserVars, extractVars, optionVars>>

----------------------------------------------------------------------------
(* Bounds of the exploration *)

\* longest line over Alphabet given to a single parser
MaxLen == 5
\* longest line over PairAlphabet given to each of two parsers
MaxPairLen == 3
\* most fields of a line rendered from a field list
MaxFields == 2
\* most lines of a catalog built from CatalogLines
MaxLines == 4
\* most calls of run() on one parser object
MaxRuns == 2
\* longest line over Alphabet given to the parser and its copy
MaxCopyLen == 4
\* most drives added to one QEMUOptions object
MaxDrives == 3
\* most set_boot_order calls on one QEMUOptions object
MaxOrders == 3

----------------------------------------------------------------------------
(* Strings *)

SPACE == " "
COMMA == ","
QUOTE == "\""
EQUALS == "="
TAB == "\t"

NoneVal == <<>>
Some(x) == <<x>>
IsNone(o) == Len(o) = 0
Get(o) == o[1]

\* s[a:b] of Python for 0 <= a, 0 <= b <= len(s)
Slice(s, a, b) ==
    IF a >= b THEN <<>> ELSE [k \in 1..(b - a) |-> s[a + k]]

StartsWith(s, prefix) ==
    /\ Len(s) >= Len(prefix)
    /\ \A k \in 1..Len(prefix) : s[k] = prefix[k]

\* every sequence over alphabet of length at most n
SeqsUpTo(alphabet, n) == UNION {[1..k -> alphabet] : k \in 0..n}

----------------------------------------------------------------------------
(* Sample lines *)

\* section label of the samples
HeaderA ==
    <<"N", "e", "t", "w", "o", "r", "k", SPACE, "d", "e", "v", "i", "c", "e",
      "s", ":">>
HeaderB ==
    <<"S", "t", "o", "r", "a", "g", "e", SPACE, "d", "e", "v", "i", "c", "e",
      "s", ":">>

\* device line of section A as the documentation writes it
LineE1000Eq ==
    <<"n", "a", "m", "e", EQUALS, "e", "1", "0", "0", "0", COMMA, "d", "e",
      "s", "c", EQUALS, QUOTE, "I", "n", "t", "e", "l", SPACE, "E", "1", "0",
      "0", "0", QUOTE, COMMA, "b", "u", "s", EQUALS, "p", "c", "i">>

\* device line of section B as the documentation writes it
LineVirtioEq ==
    <<"n", "a", "m", "e", EQUALS, "v", "i", "r", "t", "i", "o", "-", "n",
      "e", "t", "-", "p", "c", "i", COMMA, "b", "u", "s", EQUALS, "v", "i",
      "r", "t", "i", "o", "-", "b", "u", "s">>

\* the same two device lines in the shape run() scans: a space between name and value
LineE1000Sp ==
    <<"n", "a", "m", "e", SPACE, "e", "1", "0", "0", "0", COMMA, SPACE, "d",
      "e", "s", "c", SPACE, QUOTE, "I", "n", "t", "e", "l", SPACE, "E", "1",
      "0", "0", "0", QUOTE, COMMA, SPACE, "b", "u", "s", SPACE, "p", "c",
      "i", COMMA>>
LineVirtioSp ==
    <<"n", "a", "m", "e", SPACE, "v", "i", "r", "t", "i", "o", "-", "n", "e",
      "t", "-", "p", "c", "i", COMMA, SPACE, "b", "u", "s", SPACE, "v", "i",
      "r", "t", "i", "o", "-", "b", "u", "s", COMMA>>

\* a line as qemu -device help prints it
LineNative ==
    <<"n", "a", "m", "e", SPACE, QUOTE, "e", "1", "0", "0", "0", QUOTE,
      COMMA, SPACE, "b", "u", "s", SPACE, "P", "C", "I", COMMA, SPACE, "a",
      "l", "i", "a", "s", SPACE, QUOTE, "e", "1", "0", "0", "0", "-", "8",
      "2", "5", "4", "0", "e", "m", QUOTE, COMMA, SPACE, "d", "e", "s", "c",
      SPACE, QUOTE, "I", "n", "t", "e", "l", SPACE, "G", "i", "g", "a", "b",
      "i", "t", SPACE, "E", "t", "h", "e", "r", "n", "e", "t", QUOTE>>

\* a "b,c" d, e f,  : a comma inside the quotes, a character after them
LineTrailing ==
    <<"a", SPACE, QUOTE, "b", COMMA, "c", QUOTE, SPACE, "d", COMMA, SPACE,
      "e", SPACE, "f", COMMA>>

\* a b"c"  : a double-quote after the first character of the value
LineInnerQuote == <<"a", SPACE, "b", QUOTE, "c", QUOTE>>

\* the lines of the blank-line example
LineAB ==
    <<"a", EQUALS, "1", COMMA, "b", EQUALS, "2">>
LineC ==
    <<"c", EQUALS, "3">>

\* unknown property, as the documentation writes it
LineFooEq ==
    <<"f", "o", "o", EQUALS, "b", "a", "r">>
LineNameFooEq ==
    <<"n", "a", "m", "e", EQUALS, "a", COMMA, "f", "o", "o", EQUALS, "b",
      "a", "r">>

\* unknown property in the scanned shape: last field without and with its comma
LineNameFooSp ==
    <<"n", "a", "m", "e", SPACE, "a", COMMA, SPACE, "f", "o", "o", SPACE,
      "b", "a", "r">>
LineNameFooSpComma ==
    <<"n", "a", "m", "e", SPACE, "a", COMMA, SPACE, "f", "o", "o", SPACE,
      "b", "a", "r", COMMA>>

\* the consecutive-commas example, and the same in the scanned shape
LineCommasEq ==
    <<"n", "a", "m", "e", EQUALS, "a", "b", "c", COMMA, COMMA, "b", "u", "s",
      EQUALS, "p", "c", "i">>
LineCommasSp ==
    <<"n", "a", "m", "e", SPACE, "a", "b", "c", COMMA, COMMA, "b", "u", "s",
      SPACE, "p", "c", "i", COMMA>>

\* the unterminated-value example
LineNameAbcEq ==
    <<"n", "a", "m", "e", EQUALS, "a", "b", "c">>
LineNameAbcSp ==
    <<"n", "a", "m", "e", SPACE, "a", "b", "c">>

\* a key differing from name only in case
LineUpperName ==
    <<"N", "a", "m", "e", SPACE, "a", COMMA>>

\* short device lines for the catalogs explored exhaustively
LineOk ==
    <<"n", "a", "m", "e", SPACE, "a", COMMA>>
LineUnknown ==
    <<"f", "o", "o", SPACE, "b", COMMA>>
LineNoName ==
    <<"b", "u", "s", SPACE, "p", COMMA>>
LineEmptyName ==
    <<"n", "a", "m", "e", SPACE, COMMA>>
LineEmptyBus ==
    <<"n", "a", "m", "e", SPACE, "a", COMMA, "b", "u", "s", SPACE, COMMA>>
LineWhitespace ==
    <<SPACE, TAB>>
LineHeader ==
    <<SPACE, "N", "e", "t", SPACE, "d", "e", "v", "i", "c", "e", "s", ":",
      SPACE>>

----------------------------------------------------------------------------
(* dict *)

EmptyDict == <<>>

DictKeys(d) == {d[k][1] : k \in 1..Len(d)}

DictHas(d, key) == \E k \in 1..Len(d) : d[k][1] = key

DictGet(d, key) == d[CHOOSE k \in 1..Len(d) : d[k][1] = key][2]

\* variant: d.setdefault(key, value), the first value of a key is kept
DictSetKeepFirst(d, key, value) ==
    IF DictHas(d, key) THEN d ELSE Append(d, <<key, value>>)

\* d[key] = value: an existing key keeps its place, a new key goes last
DictSet(d, key, value) ==
    IF DictHas(d, key)
    THEN [k \in 1..Len(d) |-> IF d[k][1] = key THEN <<key, value>> ELSE d[k]]
    ELSE Append(d, <<key, value>>)

\* the mapping as a TLA+ function, order forgotten
AsFunction(d) == [key \in DictKeys(d) |-> DictGet(d, key)]

----------------------------------------------------------------------------
(* QEMUGeneratedDevicePropertiesExtractor *)

PROPERTY_NAME_SEARCH == "PROPERTY_NAME_SEARCH"
PROPERTY_NAME == "PROPERTY_NAME"
PROPERTY_VALUE == "PROPERTY_VALUE"
PROPERTY_VALUE_IN_QUOTES == "PROPERTY_VALUE_IN_QUOTES"
PROPERTY_POST_VALUE == "PROPERTY_POST_VALUE"

State == {PROPERTY_NAME_SEARCH, PROPERTY_NAME, PROPERTY_VALUE,
          PROPERTY_VALUE_IN_QUOTES, PROPERTY_POST_VALUE}

\* the object __init__ builds; props is what extracted_properties is bound to
NewExtractor(property_line, props) ==
    [property_line |-> property_line,
     current_state |-> PROPERTY_NAME,
     value_start_index |-> 0,
     name_start_index |-> 0,
     property_name |-> NoneVal,
     property_value |-> NoneVal,
     extracted_properties |-> props]

_on_property_name_state(self, current_character, index) ==
    IF current_character = SPACE
    THEN [self EXCEPT
            !.current_state = PROPERTY_VALUE,
            !.property_name =
                Some(Slice(self.property_line, self.name_start_index, index)),
            !.value_start_index = index + 1]
    ELSE self

\* variant: a double-quote is an ordinary character of the value
_on_property_value_state_no_quotes(self, current_character, index) ==
    IF current_character = COMMA
    THEN [self EXCEPT
            !.property_value =
                Some(Slice(self.property_line, self.value_start_index, index)),
            !.current_state = PROPERTY_NAME_SEARCH]
    ELSE self

_on_property_value_state(self, current_character, index) ==
    IF current_character = COMMA
    THEN [self EXCEPT
            !.property_value =
                Some(Slice(self.property_line, self.value_start_index, index)),
            !.current_state = PROPERTY_NAME_SEARCH]
    ELSE IF current_character = QUOTE
    THEN [self EXCEPT !.current_state = PROPERTY_VALUE_IN_QUOTES]
    ELSE self

\* variant: the value is cut from value_start_index, the opening quote included
_on_property_value_in_quotes_keeps_quote(self, current_character, index) ==
    IF current_character = QUOTE
    THEN [self EXCEPT
            !.property_value =
                Some(Slice(self.property_line, self.value_start_index, index)),
            !.current_state = PROPERTY_POST_VALUE]
    ELSE self

_on_property_value_in_quotes(self, current_character, index) ==
    IF current_character = QUOTE
    THEN [self EXCEPT
            !.property_value =
                Some(Slice(self.property_line, self.value_start_index + 1, index)),
            !.current_state = PROPERTY_POST_VALUE]
    ELSE self

\* variant: any character after the closing double-quote starts the name search
_on_property_post_value_any(self, current_character, index) ==
    [self EXCEPT !.current_state = PROPERTY_NAME_SEARCH]

_on_property_post_value(self, current_character, index) ==
    IF current_character = COMMA
    THEN [self EXCEPT !.current_state = PROPERTY_NAME_SEARCH]
    ELSE self

\* variant: the name starts at the character after the comma, a space included
_on_property_name_search_no_skip(self, current_character, index) ==
    [self EXCEPT
        !.current_state = PROPERTY_NAME,
        !.name_start_index = index]

\* variant: commas are skipped like spaces
_on_property_name_search_skips_commas(self, current_character, index) ==
    IF current_character # SPACE /\ current_character # COMMA
    THEN [self EXCEPT
            !.current_state = PROPERTY_NAME,
            !.name_start_index = index]
    ELSE self

_on_property_name_search(self, current_character, index) ==
    IF current_character # SPACE
    THEN [self EXCEPT
            !.current_state = PROPERTY_NAME,
            !.name_start_index = index]
    ELSE self

\* the match statement of run(): one handler per state
Dispatch(self, current_character, index) ==
    CASE self.current_state = PROPERTY_NAME ->
            _on_property_name_state(self, current_character, index)
      [] self.current_state = PROPERTY_VALUE ->
            _on_property_value_state(self, current_character, index)
      [] self.current_state = PROPERTY_VALUE_IN_QUOTES ->
            _on_property_value_in_quotes(self, current_character, index)
      [] self.current_state = PROPERTY_POST_VALUE ->
            _on_property_post_value(self, current_character, index)
      [] self.current_state = PROPERTY_NAME_SEARCH ->
            _on_property_name_search(self, current_character, index)

\* whether the pair is stored after this character
PairComplete(self) ==
    ~IsNone(self.property_name) /\ ~IsNone(self.property_value)

\* variant: the stored value stays pending after the store
CommitPairKeepsValue(self) ==
    IF PairComplete(self)
    THEN [self EXCEPT
            !.extracted_properties =
                DictSet(self.extracted_properties,
                        Get(self.property_name), Get(self.property_value)),
            !.property_name = NoneVal]
    ELSE self

\* the store of a complete pair, on extracted_properties held by value
CommitPair(self) ==
    IF PairComplete(self)
    THEN [self EXCEPT
            !.extracted_properties =
                DictSet(self.extracted_properties,
                        Get(self.property_name), Get(self.property_value)),
            !.property_name = NoneVal,
            !.property_value = NoneVal]
    ELSE self

\* variant: at the end of the line a pending unquoted value is stored
AtEndOfLineFlush(self) ==
    IF self.current_state = PROPERTY_VALUE /\ ~IsNone(self.property_name)
    THEN CommitPair([self EXCEPT
            !.property_value =
                Some(Slice(self.property_line, self.value_start_index,
                           Len(self.property_line)))])
    ELSE self

\* leaving the for loop of run(): the pending name and value are left as they are
AtEndOfLine(self) == self

\* one iteration of the for loop of run(); index is 0-based
LoopBody(self, index) ==
    CommitPair(Dispatch(self, self.property_line[index + 1], index))

RECURSIVE LoopFrom(_, _)
LoopFrom(self, index) ==
    IF index >= Len(self.property_line)
    THEN AtEndOfLine(self)
    ELSE LoopFrom(LoopBody(self, index), index + 1)

\* Extractor(line).run() on an object of its own: the dict it returns
RunParser(property_line) ==
    LoopFrom(NewExtractor(property_line, EmptyDict), 0).extracted_properties

----------------------------------------------------------------------------
(* _QEMUGeneratedDevicePropertiesExtractor of qemu_python_interface.py:     *)
(* the second copy of the parser, translated from its own text             *)

\* the object __init__ of the copy builds
NewExtractorCopy(property_line, props) ==
    [property_line |-> property_line,
     current_state |-> PROPERTY_NAME,
     value_start_index |-> 0,
     name_start_index |-> 0,
     property_name |-> NoneVal,
     property_value |-> NoneVal,
     extracted_properties |-> props]

on_property_name_state(self, current_character, index) ==
    IF current_character = SPACE
    THEN [self EXCEPT
            !.current_state = PROPERTY_VALUE,
            !.property_name =
                Some(Slice(self.property_line, self.name_start_index, index)),
            !.value_start_index = index + 1]
    ELSE self

on_property_value_state(self, current_character, index) ==
    IF current_character = COMMA
    THEN [self EXCEPT
            !.property_value =
                Some(Slice(self.property_line, self.value_start_index, index)),
            !.current_state = PROPERTY_NAME_SEARCH]
    ELSE IF current_character = QUOTE
    THEN [self EXCEPT !.current_state = PROPERTY_VALUE_IN_QUOTES]
    ELSE self

\* variant: the copy slices from the opening double-quote
on_property_value_in_quotes_from_quote(self, current_character, index) ==
    IF current_character = QUOTE
    THEN [self EXCEPT
            !.property_value =
                Some(Slice(self.property_line, self.value_start_index, index)),
            !.current_state = PROPERTY_POST_VALUE]
    ELSE self

on_property_value_in_quotes(self, current_character, index) ==
    IF current_character = QUOTE
    THEN [self EXCEPT
            !.property_value =
                Some(Slice(self.property_line, self.value_start_index + 1, index)),
            !.current_state = PROPERTY_POST_VALUE]
    ELSE self

on_property_post_value(self, current_character, index) ==
    IF current_character = COMMA
    THEN [self EXCEPT !.current_state = PROPERTY_NAME_SEARCH]
    ELSE self

on_property_name_search(self, current_character, index) ==
    IF current_character # SPACE
    THEN [self EXCEPT
            !.current_state = PROPERTY_NAME,
            !.name_start_index = index]
    ELSE self

\* the match statement of run() of the copy
DispatchCopy(self, current_character, index) ==
    CASE self.current_state = PROPERTY_NAME ->
            on_property_name_state(self, current_character, index)
      [] self.current_state = PROPERTY_VALUE ->
            on_property_value_state(self, current_character, index)
      [] self.current_state = PROPERTY_VALUE_IN_QUOTES ->
            on_property_value_in_quotes(self, current_character, index)
      [] self.current_state = PROPERTY_POST_VALUE ->
            on_property_post_value(self, current_character, index)
      [] self.current_state = PROPERTY_NAME_SEARCH ->
            on_property_name_search(self, current_character, index)

\* the store of a complete pair in run() of the copy
CommitPairCopy(self) ==
    IF self.property_name # NoneVal /\ self.property_value # NoneVal
    THEN [self EXCEPT
            !.extracted_properties =
                DictSet(self.extracted_properties,
                        Get(self.property_name), Get(self.property_value)),
            !.property_name = NoneVal,
            !.property_value = NoneVal]
    ELSE self

\* one iteration of the for loop of run() of the copy; index is 0-based
LoopBodyCopy(self, index) ==
    CommitPairCopy(DispatchCopy(self, self.property_line[index + 1], index))


----------------------------------------------------------------------------
(* Inputs: lines over a small alphabet, lines rendered from field lists,   *)
(* and the sample lines of the documentation                               *)

Alphabet == {"a", EQUALS, SPACE, COMMA, QUOTE}
PairAlphabet == {"a", SPACE, COMMA}

FieldNames == {<<"a">>, <<"b">>}
UnquotedValues == {<<>>, <<"a">>, <<"a", SPACE, "a">>}
QuotedValues == {<<>>, <<"a">>, <<"a", COMMA, "a">>}
Separators == {<<>>, <<COMMA>>, <<COMMA, SPACE>>}

Field ==
    [name : FieldNames, value : UnquotedValues, quoted : {FALSE}, sep : Separators]
    \cup
    [name : FieldNames, value : QuotedValues, quoted : {TRUE}, sep : Separators]

FieldLists == UNION {[1..k -> Field] : k \in 1..MaxFields}

\* name=value,name="value",... : only the last field has no comma after it
WellFormedEq(fields) ==
    \A k \in 1..Len(fields) : (fields[k].sep = <<>>) <=> (k = Len(fields))

\* name value, name "value", ... : every unquoted value is followed by a comma,
\* and so is every quoted value but possibly the last
WellFormedSp(fields) ==
    \A k \in 1..Len(fields) :
        fields[k].sep = <<>> => (k = Len(fields) /\ fields[k].quoted)

RenderField(f, joiner) ==
    f.name \o <<joiner>>
           \o (IF f.quoted THEN <<QUOTE>> \o f.value \o <<QUOTE>> ELSE f.value)
           \o f.sep

RECURSIVE Render(_, _)
Render(fields, joiner) ==
    IF fields = <<>>
    THEN <<>>
    ELSE RenderField(Head(fields), joiner) \o Render(Tail(fields), joiner)

RawInput(line) == [form |-> "raw", fields |-> <<>>, line |-> line]

EqInputs ==
    {[form |-> "eq", fields |-> fs, line |-> Render(fs, EQUALS)] :
        fs \in {g \in FieldLists : WellFormedEq(g)}}

SpInputs ==
    {[form |-> "sp", fields |-> fs, line |-> Render(fs, SPACE)] :
        fs \in {g \in FieldLists : WellFormedSp(g)}}

\* name value, ..., name value : as WellFormedSp, but the last field is unquoted
\* and has no comma after it
OpenEnded(fields) ==
    /\ \A k \in 1..(Len(fields) - 1) : fields[k].sep # <<>>
    /\ ~fields[Len(fields)].quoted
    /\ fields[Len(fields)].sep = <<>>

OpenInputs ==
    {[form |-> "open", fields |-> fs, line |-> Render(fs, SPACE)] :
        fs \in {g \in FieldLists : OpenEnded(g)}}

NoInput == [form |-> "none", fields |-> <<>>, line |-> <<>>]

SampleLines ==
    {LineE1000Eq, LineVirtioEq, LineE1000Sp, LineVirtioSp, LineNative, LineNameFooEq,
     LineNameFooSp, LineNameFooSpComma, LineCommasEq, LineCommasSp, LineNameAbcEq,
     LineNameAbcSp, LineEmptyName, LineEmptyBus, LineTrailing, LineInnerQuote}

SoloInputs ==
    {RawInput(l) : l \in SeqsUpTo(Alphabet, MaxLen) \cup SampleLines}
        \cup EqInputs \cup SpInputs \cup OpenInputs

PairInputs == {RawInput(l) : l \in SeqsUpTo(PairAlphabet, MaxPairLen)}

----------------------------------------------------------------------------
(* Parser objects and their run() calls *)

Instances == {1, 2}

\* variant: one dict for the class, bound by every instance
AllocDictShared(h) == 1

\* the object the expression {} of __init__ evaluates to: a new one each time
AllocDict(h) == Len(h) + 1

\* the heap after binding reference ref: a new reference starts as the empty dict
WithDict(h, ref) ==
    IF ref > Len(h) THEN Append(h, EmptyDict) ELSE h

\* the object with extracted_properties read through the heap
Load(i) ==
    [parsers[i] EXCEPT !.extracted_properties = heap[parsers[i].extracted_properties]]

Constructed(i) == i \in DOMAIN parsers

Idle == [pc |-> "idle", index |-> 0, runs |-> 0]

ParserInit ==
    /\ parsers = <<>>
    /\ heap = <<>>
    /\ returned = [i \in Instances |-> NoneVal]
    /\ input = [i \in Instances |-> NoInput]
    /\ trace = [i \in Instances |-> <<>>]
    /\ commits = [i \in Instances |-> <<>>]
    /\ calls = [i \in Instances |-> Idle]

\* QEMUGeneratedDevicePropertiesExtractor(inp.line), for one of the inputs
Construct(i, inputs) ==
    /\ ~Constructed(i)
    /\ \E inp \in inputs :
        LET ref == AllocDict(heap) IN
        /\ parsers' = parsers @@ (i :> NewExtractor(inp.line, ref))
        /\ heap' = WithDict(heap, ref)
        /\ input' = [input EXCEPT ![i] = inp]
    /\ UNCHANGED <<returned, trace, commits, calls>>
    /\ UNCHANGED extractVars
    /\ UNCHANGED optionVars

\* the call of run(): the for loop starts at the first character
RunCall(i) ==
    /\ Constructed(i)
    /\ calls[i].pc = "idle"
    /\ calls' = [calls EXCEPT ![i] = [pc |-> "loop", index |-> 0, runs |-> 1]]
    /\ UNCHANGED <<parsers, heap, returned, input, trace, commits>>
    /\ UNCHANGED extractVars
    /\ UNCHANGED optionVars

\* a further call of run() on the same object: the for loop starts again at the
\* first character, the fields are as the previous call left them
RunAgain(i) ==
    /\ Constructed(i)
    /\ calls[i].pc = "done"
    /\ calls[i].runs < MaxRuns
    /\ calls' = [calls EXCEPT ![i] = [pc |-> "loop", index |-> 0, runs |-> @.runs + 1]]
    /\ UNCHANGED <<parsers, heap, returned, input, trace, commits>>
    /\ UNCHANGED extractVars
    /\ UNCHANGED optionVars

\* one character of the for loop of run()
CharStep(i) ==
    /\ Constructed(i)
    /\ calls[i].pc = "loop"
    /\ calls[i].index < Len(parsers[i].property_line)
    /\ LET index == calls[i].index
           ref == parsers[i].extracted_properties
           handled == Dispatch(Load(i), parsers[i].property_line[index + 1], index)
           next == LoopBody(Load(i), index)
       IN
        /\ parsers' = [parsers EXCEPT ![i] = [next EXCEPT !.extracted_properties = ref]]
        /\ heap' = [heap EXCEPT ![ref] = next.extracted_properties]
        /\ trace' = [trace EXCEPT ![i] = Append(@, next.current_state)]
        /\ commits' = [commits EXCEPT ![i] =
                IF PairComplete(handled)
                THEN Append(@, [name |-> Get(handled.property_name),
                                value |-> Get(handled.property_value),
                                index |-> index])
                ELSE @]
        /\ calls' = [calls EXCEPT ![i].index = index + 1]
    /\ UNCHANGED <<returned, input>>
    /\ UNCHANGED extractVars
    /\ UNCHANGED optionVars

\* the loop is over: return self.extracted_properties
Return(i) ==
    /\ Constructed(i)
    /\ calls[i].pc = "loop"
    /\ calls[i].index = Len(parsers[i].property_line)
    /\ LET ref == parsers[i].extracted_properties
           last == AtEndOfLine(Load(i))
       IN
        /\ parsers' = [parsers EXCEPT ![i] = [last EXCEPT !.extracted_properties = ref]]
        /\ heap' = [heap EXCEPT ![ref] = last.extracted_properties]
        /\ returned' = [returned EXCEPT ![i] = Some(ref)]
    /\ calls' = [calls EXCEPT ![i].pc = "done"]
    /\ UNCHANGED <<input, trace, commits>>
    /\ UNCHANGED extractVars
    /\ UNCHANGED optionVars

Done(i) == calls[i].pc = "done"

\* the mapping run() returned to the caller of instance i, as it reads now
Result(i) == heap[Get(returned[i])]

\* _QEMUGeneratedDevicePropertiesExtractor(line): the copy, built as object i on
\* the line the other object was built on
ConstructCopy(i, other) ==
    /\ ~Constructed(i)
    /\ Constructed(other)
    /\ LET ref == AllocDict(heap) IN
        /\ parsers' = parsers @@ (i :> NewExtractorCopy(input[other].line, ref))
        /\ heap' = WithDict(heap, ref)
        /\ input' = [input EXCEPT ![i] = input[other]]
    /\ UNCHANGED <<returned, trace, commits, calls>>
    /\ UNCHANGED extractVars
    /\ UNCHANGED optionVars

\* the call of run() of the copy
RunCallCopy(i) ==
    /\ Constructed(i)
    /\ calls[i].pc = "idle"
    /\ calls' = [calls EXCEPT ![i] = [pc |-> "loop", index |-> 0, runs |-> 1]]
    /\ UNCHANGED <<parsers, heap, returned, input, trace, commits>>
    /\ UNCHANGED extractVars
    /\ UNCHANGED optionVars

\* one character of the for loop of run() of the copy
CharStepCopy(i) ==
    /\ Constructed(i)
    /\ calls[i].pc = "loop"
    /\ calls[i].index < Len(parsers[i].property_line)
    /\ LET index == calls[i].index
           ref == parsers[i].extracted_properties
           handled == DispatchCopy(Load(i), parsers[i].property_line[index + 1], index)
           next == LoopBodyCopy(Load(i), index)
       IN
        /\ parsers' = [parsers EXCEPT ![i] = [next EXCEPT !.extracted_properties = ref]]
        /\ heap' = [heap EXCEPT ![ref] = next.extracted_properties]
        /\ trace' = [trace EXCEPT ![i] = Append(@, next.current_state)]
        /\ commits' = [commits EXCEPT ![i] =
                IF handled.property_name # NoneVal /\ handled.property_value # NoneVal
                THEN Append(@, [name |-> Get(handled.property_name),
                                value |-> Get(handled.property_value),
                                index |-> index])
                ELSE @]
        /\ calls' = [calls EXCEPT ![i].index = index + 1]
    /\ UNCHANGED <<returned, input>>
    /\ UNCHANGED extractVars
    /\ UNCHANGED optionVars

\* the loop of the copy is over: return self.extracted_properties
ReturnCopy(i) ==
    /\ Constructed(i)
    /\ calls[i].pc = "loop"
    /\ calls[i].index = Len(parsers[i].property_line)
    /\ returned' = [returned EXCEPT ![i] = Some(parsers[i].extracted_properties)]
    /\ calls' = [calls EXCEPT ![i].pc = "done"]
    /\ UNCHANGED <<parsers, heap, input, trace, commits>>
    /\ UNCHANGED extractVars
    /\ UNCHANGED optionVars

----------------------------------------------------------------------------
(* str helpers of files_generator.py *)

IsWhitespace(c) == c \in {SPACE, TAB}

RECURSIVE LStrip(_)
LStrip(s) ==
    IF s # <<>> /\ IsWhitespace(Head(s)) THEN LStrip(Tail(s)) ELSE s

RECURSIVE RStrip(_)
RStrip(s) ==
    IF s # <<>> /\ IsWhitespace(s[Len(s)]) THEN RStrip(SubSeq(s, 1, Len(s) - 1)) ELSE s

\* str.strip()
Strip(s) == RStrip(LStrip(s))

LowerCase ==
    <<"a", "b", "c", "d", "e", "f", "g", "h", "i", "j", "k", "l", "m",
      "n", "o", "p", "q", "r", "s", "t", "u", "v", "w", "x", "y", "z">>
UpperCase ==
    <<"A", "B", "C", "D", "E", "F", "G", "H", "I", "J", "K", "L", "M",
      "N", "O", "P", "Q", "R", "S", "T", "U", "V", "W", "X", "Y", "Z">>
Digits == {"0", "1", "2", "3", "4", "5", "6", "7", "8", "9"}

IsLower(c) == \E k \in 1..Len(LowerCase) : LowerCase[k] = c
IsUpper(c) == \E k \in 1..Len(UpperCase) : UpperCase[k] = c

\* the class [0-9a-zA-Z] of the two re.sub calls
IsAlnum(c) == c \in Digits \/ IsLower(c) \/ IsUpper(c)

\* str.upper(), one character
Upper(c) ==
    IF IsLower(c) THEN UpperCase[CHOOSE k \in 1..Len(LowerCase) : LowerCase[k] = c] ELSE c

\* re.sub("[^0-9a-zA-Z]+", rep, s): every maximal run of other characters becomes rep
RECURSIVE SubNonAlnum(_, _, _)
SubNonAlnum(s, rep, inRun) ==
    IF s = <<>> THEN <<>>
    ELSE IF IsAlnum(Head(s)) THEN <<Head(s)>> \o SubNonAlnum(Tail(s), rep, FALSE)
    ELSE (IF inRun THEN <<>> ELSE rep) \o SubNonAlnum(Tail(s), rep, TRUE)

\* str.replace(old, ''), old not empty
RECURSIVE Remove(_, _)
Remove(s, old) ==
    IF Len(s) < Len(old) THEN s
    ELSE IF StartsWith(s, old) THEN Remove(SubSeq(s, Len(old) + 1, Len(s)), old)
    ELSE <<Head(s)>> \o Remove(Tail(s), old)

IndexError == [message |-> "string index out of range", args |-> <<>>]

\* _change_to_fit_enum: [value, raised]; string[0] of an empty string raises
_change_to_fit_enum(string) ==
    LET upper == [k \in 1..Len(SubNonAlnum(string, <<"_">>, FALSE)) |->
                    Upper(SubNonAlnum(string, <<"_">>, FALSE)[k])]
    IN  IF upper = <<>> THEN [value |-> <<>>, raised |-> Some(IndexError)]
        ELSE IF upper[1] \in Digits THEN [value |-> <<"_">> \o upper, raised |-> NoneVal]
        ELSE [value |-> upper, raised |-> NoneVal]

_change_to_class_name(section) ==
    SubNonAlnum(Remove(section, <<"d", "e", "v", "i", "c", "e", "s">>), <<>>, FALSE)

----------------------------------------------------------------------------
(* _QEMUGeneratedDevice, _QEMUGeneratedDevicesSection *)

_QEMUGeneratedDevice ==
    [name |-> <<>>, description |-> NoneVal, bus |-> NoneVal, alias |-> NoneVal]

_QEMUGeneratedDevicesSection(section_name, devices) ==
    [section_name |-> section_name, devices |-> devices]

----------------------------------------------------------------------------
(* QEMUFilesGenerator._extract_devices *)

KeyName == <<"n", "a", "m", "e">>
KeyBus == <<"b", "u", "s">>
KeyDesc == <<"d", "e", "s", "c">>
KeyAlias == <<"a", "l", "i", "a", "s">>

UnrecognizedFormat(key, value) ==
    [message |-> "Unrecognized device format", args |-> <<key, value>>]

NameNone == [message |-> "device_name property None", args |-> <<>>]

\* variant: a key with no recognized prefix is skipped
RECURSIVE ClassifyFromSkipping(_, _, _)
ClassifyFromSkipping(device, properties, k) ==
    IF k > Len(properties)
    THEN [device |-> device, raised |-> NoneVal]
    ELSE LET key == properties[k][1]
             value == properties[k][2]
         IN  IF StartsWith(key, KeyName)
             THEN ClassifyFromSkipping([device EXCEPT !.name = value], properties, k + 1)
             ELSE IF StartsWith(key, KeyBus)
             THEN ClassifyFromSkipping([device EXCEPT !.bus = Some(value)], properties, k + 1)
             ELSE IF StartsWith(key, KeyDesc)
             THEN ClassifyFromSkipping([device EXCEPT !.description = Some(value)],
                                       properties, k + 1)
             ELSE IF StartsWith(key, KeyAlias)
             THEN ClassifyFromSkipping([device EXCEPT !.alias = Some(value)], properties, k + 1)
             ELSE ClassifyFromSkipping(device, properties, k + 1)

\* variant: the alias branch assigns the description
RECURSIVE ClassifyFromAliasAsDescription(_, _, _)
ClassifyFromAliasAsDescription(device, properties, k) ==
    IF k > Len(properties)
    THEN [device |-> device, raised |-> NoneVal]
    ELSE LET key == properties[k][1]
             value == properties[k][2]
         IN  IF StartsWith(key, KeyName)
             THEN ClassifyFromAliasAsDescription([device EXCEPT !.name = value],
                                                 properties, k + 1)
             ELSE IF StartsWith(key, KeyBus)
             THEN ClassifyFromAliasAsDescription([device EXCEPT !.bus = Some(value)],
                                                 properties, k + 1)
             ELSE IF StartsWith(key, KeyDesc)
             THEN ClassifyFromAliasAsDescription([device EXCEPT !.description = Some(value)],
                                                 properties, k + 1)
             ELSE IF StartsWith(key, KeyAlias)
             THEN ClassifyFromAliasAsDescription([device EXCEPT !.description = Some(value)],
                                                 properties, k + 1)
             ELSE [device |-> device, raised |-> Some(UnrecognizedFormat(key, value))]

\* for key, value in properties.items(): from item k on; [device, raised]
RECURSIVE ClassifyFrom(_, _, _)
ClassifyFrom(device, properties, k) ==
    IF k > Len(properties)
    THEN [device |-> device, raised |-> NoneVal]
    ELSE LET key == properties[k][1]
             value == properties[k][2]
         IN  IF StartsWith(key, KeyName)
             THEN ClassifyFrom([device EXCEPT !.name = value], properties, k + 1)
             ELSE IF StartsWith(key, KeyBus)
             THEN ClassifyFrom([device EXCEPT !.bus = Some(value)], properties, k + 1)
             ELSE IF StartsWith(key, KeyDesc)
             THEN ClassifyFrom([device EXCEPT !.description = Some(value)], properties, k + 1)
             ELSE IF StartsWith(key, KeyAlias)
             THEN ClassifyFrom([device EXCEPT !.alias = Some(value)], properties, k + 1)
             ELSE [device |-> device, raised |-> Some(UnrecognizedFormat(key, value))]

\* variant: len(line) == 0, the line not stripped
IsEmptyLine(line) == Len(line) = 0

\* if len(line.strip()) == 0
IsBlank(line) == Len(Strip(line)) = 0

\* variant: device.name == None, which a str never is
NameIsNone(device) == FALSE

\* if device.name == ""
NameIsEmpty(device) == device.name = <<>>

\* a device line: parse, classify, check the name; [device, raised]
DeviceOf(line) ==
    LET classified == ClassifyFrom(_QEMUGeneratedDevice, RunParser(Strip(line)), 1)
    IN  IF ~IsNone(classified.raised) THEN classified
        ELSE IF NameIsEmpty(classified.device)
        THEN [device |-> classified.device, raised |-> Some(NameNone)]
        ELSE classified

\* variant: devices.insert(0, device)
PrependDevice(devices, device) == <<device>> \o devices

\* current_section.devices.append(device)
AppendDevice(devices, device) == Append(devices, device)

\* variant: the error is recorded and the loop goes on
AfterLineContinue(raised) == "loop"

\* where the for loop of _extract_devices goes after a line: a raise leaves it
AfterLine(raised) == IF IsNone(raised) THEN "loop" ELSE "raised"

----------------------------------------------------------------------------
(* QEMUFilesGenerator._generate_bus_file_text, _generate_devices_file_text *)

DevicesOf(sections) ==
    UNION {{sections[s].devices[d] : d \in 1..Len(sections[s].devices)} :
            s \in 1..Len(sections)}

\* the buses set
Buses(sections) ==
    {Get(device.bus) : device \in {d \in DevicesOf(sections) : ~IsNone(d.bus)}}

\* [text, raised]: the enum fields, one per bus (a set: the order is that of a Python set)
_generate_bus_file_text(sections) ==
    IF \E bus \in Buses(sections) : ~IsNone(_change_to_fit_enum(bus).raised)
    THEN [text |-> NoneVal, raised |-> Some(IndexError)]
    ELSE [text |-> Some({[enum_name |-> _change_to_fit_enum(bus).value, bus_name |-> bus] :
                            bus \in Buses(sections)}),
          raised |-> NoneVal]

NoneLiteral == <<"N", "o", "n", "e">>

\* f'"{x}"' for x: str | None
QuotedText(x) == <<QUOTE>> \o (IF IsNone(x) THEN NoneLiteral ELSE Get(x)) \o <<QUOTE>>

\* one tuple line of a section's enum class
TupleLine(device) ==
    [device_name |-> _change_to_fit_enum(device.name).value,
     name |-> device.name,
     device_desc |->
        IF IsNone(device.description) THEN NoneLiteral ELSE QuotedText(device.description),
     device_bus |->
        IF IsNone(device.bus) THEN NoneLiteral ELSE _change_to_fit_enum(Get(device.bus)).value,
     device_alias |->
        IF IsNone(device.description) THEN NoneLiteral ELSE QuotedText(device.alias)]

\* whether rendering the device raises in _change_to_fit_enum
TupleLineRaises(device) ==
    \/ ~IsNone(_change_to_fit_enum(device.name).raised)
    \/ ~IsNone(device.bus) /\ ~IsNone(_change_to_fit_enum(Get(device.bus)).raised)

\* [text, raised]: per section its class name and its tuple lines
_generate_devices_file_text(sections) ==
    IF \E device \in DevicesOf(sections) : TupleLineRaises(device)
    THEN [text |-> NoneVal, raised |-> Some(IndexError)]
    ELSE [text |-> Some([s \in 1..Len(sections) |->
                    [class_name |-> <<"Q", "E", "M", "U">>
                                    \o _change_to_class_name(sections[s].section_name)
                                    \o <<"D", "e", "v", "i", "c", "e">>,
                     tuple_lines |-> [d \in 1..Len(sections[s].devices) |->
                                        TupleLine(sections[s].devices[d])]]]),
          raised |-> NoneVal]

----------------------------------------------------------------------------
(* generate_devices_file and the _extract_devices call inside it *)

NoFile == [opened |-> FALSE, written |-> <<>>]

ExtractorIdle ==
    /\ output = <<>>
    /\ gen_pc = "idle"
    /\ lines = <<>>
    /\ line_index = 0
    /\ current_section = NoneVal
    /\ generated_sections = <<>>
    /\ devices_sections = NoneVal
    /\ bus_file_text = NoneVal
    /\ devices_file_text = NoneVal
    /\ error = NoneVal
    /\ file = NoFile

\* generate_devices_file() up to the for loop of _extract_devices: the output of
\* the launcher is split into lines
CallExtract ==
    /\ gen_pc = "start"
    /\ lines' = output
    /\ line_index' = 0
    /\ current_section' = NoneVal
    /\ generated_sections' = <<>>
    /\ gen_pc' = "loop"
    /\ UNCHANGED <<output, devices_sections, bus_file_text, devices_file_text, error, file>>
    /\ UNCHANGED parserVars
    /\ UNCHANGED optionVars

\* one iteration of for line in lines
ProcessLine ==
    /\ gen_pc = "loop"
    /\ line_index < Len(lines)
    /\ line_index' = line_index + 1
    /\ LET line == lines[line_index + 1] IN
        IF IsBlank(line)
        THEN /\ current_section' = NoneVal
             /\ UNCHANGED <<generated_sections, error, gen_pc>>
        ELSE IF IsNone(current_section)
        THEN /\ generated_sections' =
                    Append(generated_sections, _QEMUGeneratedDevicesSection(line, <<>>))
             /\ current_section' = Some(Len(generated_sections) + 1)
             /\ UNCHANGED <<error, gen_pc>>
        ELSE LET made == DeviceOf(line) IN
             /\ error' = made.raised
             /\ gen_pc' = AfterLine(made.raised)
             /\ generated_sections' =
                    IF IsNone(made.raised)
                    THEN [generated_sections EXCEPT ![Get(current_section)].devices =
                            AppendDevice(@, made.device)]
                    ELSE generated_sections
             /\ UNCHANGED current_section
    /\ UNCHANGED <<output, lines, devices_sections, bus_file_text, devices_file_text, file>>
    /\ UNCHANGED parserVars
    /\ UNCHANGED optionVars

\* return generated_sections, bound to devices_sections by the caller
ExtractReturn ==
    /\ gen_pc = "loop"
    /\ line_index = Len(lines)
    /\ devices_sections' = Some(generated_sections)
    /\ gen_pc' = "bus_text"
    /\ UNCHANGED <<output, lines, line_index, current_section, generated_sections,
                   bus_file_text, devices_file_text, error, file>>
    /\ UNCHANGED parserVars
    /\ UNCHANGED optionVars

GenerateBusText ==
    /\ gen_pc = "bus_text"
    /\ LET made == _generate_bus_file_text(Get(devices_sections)) IN
        /\ bus_file_text' = made.text
        /\ error' = made.raised
        /\ gen_pc' = IF IsNone(made.raised) THEN "devices_text" ELSE "raised"
    /\ UNCHANGED <<output, lines, line_index, current_section, generated_sections,
                   devices_sections, devices_file_text, file>>
    /\ UNCHANGED parserVars
    /\ UNCHANGED optionVars

GenerateDevicesText ==
    /\ gen_pc = "devices_text"
    /\ LET made == _generate_devices_file_text(Get(devices_sections)) IN
        /\ devices_file_text' = made.text
        /\ error' = made.raised
        /\ gen_pc' = IF IsNone(made.raised) THEN "write" ELSE "raised"
    /\ UNCHANGED <<output, lines, line_index, current_section, generated_sections,
                   devices_sections, bus_file_text, file>>
    /\ UNCHANGED parserVars
    /\ UNCHANGED optionVars

\* with open(output_file_path, "w") as file: the two writes
WriteFile ==
    /\ gen_pc = "write"
    /\ file' = [opened |-> TRUE,
                written |-> <<Get(bus_file_text), Get(devices_file_text)>>]
    /\ gen_pc' = "done"
    /\ UNCHANGED <<output, lines, line_index, current_section, generated_sections,
                   devices_sections, bus_file_text, devices_file_text, error>>
    /\ UNCHANGED parserVars
    /\ UNCHANGED optionVars

----------------------------------------------------------------------------
(* QEMUOptions of options.py *)

\* characters in the order of their code points, as far as ids use them
CodePoints ==
    <<"-", ".", "/", "0", "1", "2", "3", "4", "5", "6", "7", "8", "9">>
        \o UpperCase \o <<"_">> \o LowerCase

CodePoint(c) == CHOOSE k \in 1..Len(CodePoints) : CodePoints[k] = c

\* a < b for two str, as Python compares them: by code point, a prefix first
RECURSIVE StrLess(_, _)
StrLess(a, b) ==
    IF b = <<>> THEN FALSE
    ELSE IF a = <<>> THEN TRUE
    ELSE IF a[1] # b[1] THEN CodePoint(a[1]) < CodePoint(b[1])
    ELSE StrLess(Tail(a), Tail(b))

DecimalDigits == <<"0", "1", "2", "3", "4", "5", "6", "7", "8", "9">>

\* str(n) for an int n >= 0
RECURSIVE Decimal(_)
Decimal(n) ==
    IF n < 10 THEN <<DecimalDigits[n + 1]>>
    ELSE Decimal(n \div 10) \o <<DecimalDigits[(n % 10) + 1]>>

\* the directory os.path.realpath resolves relative paths against
WorkingDirectory == <<"/", "w">>

\* os.path.realpath for a path with no link and no dot segment
RealPath(path) ==
    IF path # <<>> /\ path[1] = "/" THEN path
    ELSE WorkingDirectory \o <<"/">> \o path

CDRom == "_QEMUCDRom"
HardDrive == "_QEMUHardDrive"

\* _QEMUCDRom(file_path, id) and _QEMUHardDrive(file_path, id)
_QEMUDrive(type, file_path, id) == [type |-> type, file_path |-> file_path, id |-> id]

_QEMUBootOrderEntry(drive_id, index) == [drive_id |-> drive_id, index |-> index]

MEGABYTES == "M"
GIGABYTES == "G"

_QEMURamSize(amount, unit) == [amount |-> amount, unit |-> unit]

\* NoneVal, or Some(the first drive with that id)
_find_drive_with_id(ds, id) ==
    LET at == {k \in 1..Len(ds) : ds[k].id = id}
    IN  IF at = {} THEN NoneVal ELSE Some(ds[CHOOSE k \in at : \A m \in at : k <= m])

\* NoneVal, or Some(the first boot-order entry of that drive)
_find_bootorder_for_drive(bo, id) ==
    LET at == {k \in 1..Len(bo) : bo[k].drive_id = id}
    IN  IF at = {} THEN NoneVal ELSE Some(bo[CHOOSE k \in at : \A m \in at : k <= m])

\* DRIVE_ID_FORMAT.format(drive_id_suffix)
DRIVE_ID_FORMAT(drive_id_suffix) ==
    <<"d", "r", "i", "v", "e", "_">> \o Decimal(drive_id_suffix)

\* the while loop of _create_id_for_driver from drive_id_suffix on
RECURSIVE FirstFreeId(_, _)
FirstFreeId(ds, drive_id_suffix) ==
    IF _find_drive_with_id(ds, DRIVE_ID_FORMAT(drive_id_suffix)) # NoneVal
    THEN FirstFreeId(ds, drive_id_suffix + 1)
    ELSE DRIVE_ID_FORMAT(drive_id_suffix)

\* variant: every drive gets the id of suffix 0
_create_id_for_driver_constant(ds) == DRIVE_ID_FORMAT(0)

_create_id_for_driver(ds) == FirstFreeId(ds, Len(ds))

\* the list with entry put after the entries whose drive_id is not greater
RECURSIVE InsertByDriveId(_, _)
InsertByDriveId(sorted, entry) ==
    IF sorted = <<>> THEN <<entry>>
    ELSE IF StrLess(entry.drive_id, sorted[1].drive_id) THEN <<entry>> \o sorted
    ELSE <<sorted[1]>> \o InsertByDriveId(Tail(sorted), entry)

\* list.sort(key=lambda order_key: order_key.drive_id): stable
RECURSIVE SortByDriveId(_)
SortByDriveId(bo) ==
    IF bo = <<>> THEN <<>>
    ELSE InsertByDriveId(SortByDriveId(SubSeq(bo, 1, Len(bo) - 1)), bo[Len(bo)])

\* variant: an entry is appended even when the drive has one
set_boot_order_always_appends(bo, drive_id, index) ==
    SortByDriveId(Append(bo, _QEMUBootOrderEntry(drive_id, index)))

\* the boot-order list after set_boot_order(drive_id, index)
set_boot_order(bo, drive_id, index) ==
    LET at == {k \in 1..Len(bo) : bo[k].drive_id = drive_id}
        boot_order_set == at # {}
        first == CHOOSE k \in at : \A m \in at : k <= m
    IN  SortByDriveId(
            IF boot_order_set
            THEN [bo EXCEPT ![first].index = index]
            ELSE Append(bo, _QEMUBootOrderEntry(drive_id, index)))

\* the two arguments to_command_line appends for one drive
DriveArguments(drive, bo) ==
    LET media == IF drive.type = CDRom THEN <<"c", "d", "r", "o", "m">>
                 ELSE <<"d", "i", "s", "k">>
        drive_parameters ==
            <<<<"file", <<QUOTE>> \o drive.file_path \o <<QUOTE>>>>,
              <<"id", drive.id>>,
              <<"media", media>>,
              <<"if", <<"n", "o", "n", "e">>>>>>
        device == IF drive.type = CDRom THEN "IDE_CD" ELSE "IDE_HD"
        found == _find_bootorder_for_drive(bo, drive.id)
        device_parameters ==
            <<<<"device", device>>, <<"drive", drive.id>>>>
                \o (IF found # NoneVal
                    THEN <<<<"bootindex", Decimal(Get(found).index)>>>>
                    ELSE <<>>)
    IN  <<[option |-> "-drive", parameters |-> drive_parameters],
          [option |-> "-device", parameters |-> device_parameters]>>

RECURSIVE DrivesArguments(_, _, _)
DrivesArguments(ds, bo, k) ==
    IF k > Len(ds) THEN <<>>
    ELSE DriveArguments(ds[k], bo) \o DrivesArguments(ds, bo, k + 1)

\* the command to_command_line joins with spaces, argument by argument
to_command_line(path, ds, bo, cpu, smp, ram, accel) ==
    <<[option |-> "", parameters |-> <<path>>]>>
        \o DrivesArguments(ds, bo, 1)
        \o (IF cpu # NoneVal THEN <<[option |-> "-cpu", parameters |-> <<Get(cpu)>>]>>
            ELSE <<>>)
        \o <<[option |-> "-smp", parameters |-> <<Decimal(smp)>>],
             [option |-> "-m", parameters |-> <<Decimal(ram.amount) \o <<ram.unit>>>>]>>
        \o (IF accel # NoneVal THEN <<[option |-> "-accel", parameters |-> <<Get(accel)>>]>>
            ELSE <<>>)

\* the arguments of the calls explored
QemuPath == <<"q", "e", "m", "u">>
ImageFiles == {<<"a">>}
CoresArguments == {0, 2}
MegabytesArguments == {0, 256}
GigabytesArguments == {2}
AccelerationModes == {<<"k", "v", "m">>}
BootIndexes == {0, 1}
BootDriveIds == {DRIVE_ID_FORMAT(0), DRIVE_ID_FORMAT(1), <<"c", "d">>}

\* QEMUOptions(QemuPath)
OptionsInit ==
    /\ qemu_path = RealPath(QemuPath)
    /\ processor = NoneVal
    /\ cores = 1
    /\ ram_size = _QEMURamSize(512, MEGABYTES)
    /\ drives = <<>>
    /\ acceleration_mode = NoneVal
    /\ boot_order = <<>>
    /\ issued = <<>>
    /\ orders = <<>>
    /\ command = NoneVal

\* the options are still being set: to_command_line has not been taken yet
Configuring == command = NoneVal

set_cores_count ==
    /\ Configuring
    /\ \E n \in CoresArguments : cores' = IF n <= 0 THEN 1 ELSE n
    /\ UNCHANGED <<drives, boot_order, ram_size, acceleration_mode, processor,
                   qemu_path, issued, orders, command>>
    /\ UNCHANGED <<parserVars, extractVars>>

set_ram_megabytes ==
    /\ Configuring
    /\ \E megabytes \in MegabytesArguments :
        ram_size' = _QEMURamSize(IF megabytes <= 0 THEN 512 ELSE megabytes, MEGABYTES)
    /\ UNCHANGED <<drives, boot_order, cores, acceleration_mode, processor,
                   qemu_path, issued, orders, command>>
    /\ UNCHANGED <<parserVars, extractVars>>

set_ram_gigabytes ==
    /\ Configuring
    /\ \E gigabytes \in GigabytesArguments :
        ram_size' = _QEMURamSize(IF gigabytes <= 0 THEN 1 ELSE gigabytes, GIGABYTES)
    /\ UNCHANGED <<drives, boot_order, cores, acceleration_mode, processor,
                   qemu_path, issued, orders, command>>
    /\ UNCHANGED <<parserVars, extractVars>>

set_acceleration_mode ==
    /\ Configuring
    /\ \E mode \in AccelerationModes : acceleration_mode' = Some(mode)
    /\ UNCHANGED <<drives, boot_order, cores, ram_size, processor,
                   qemu_path, issued, orders, command>>
    /\ UNCHANGED <<parserVars, extractVars>>

SetBootOrder ==
    /\ Configuring
    /\ Len(orders) < MaxOrders
    /\ \E drive_id \in BootDriveIds, index \in BootIndexes :
        /\ boot_order' = set_boot_order(boot_order, drive_id, index)
        /\ orders' = Append(orders, [drive_id |-> drive_id, index |-> index])
    /\ UNCHANGED <<drives, cores, ram_size, acceleration_mode, processor,
                   qemu_path, issued, command>>
    /\ UNCHANGED <<parserVars, extractVars>>

add_cdrom ==
    /\ Configuring
    /\ Len(drives) < MaxDrives
    /\ \E iso_file \in ImageFiles :
        LET drive == _QEMUDrive(CDRom, RealPath(iso_file), _create_id_for_driver(drives))
        IN  /\ drives' = Append(drives, drive)
            /\ issued' = Append(issued, drive.id)
    /\ UNCHANGED <<boot_order, cores, ram_size, acceleration_mode, processor,
                   qemu_path, orders, command>>
    /\ UNCHANGED <<parserVars, extractVars>>

add_hard_drive ==
    /\ Configuring
    /\ Len(drives) < MaxDrives
    /\ \E image_file \in ImageFiles :
        LET drive == _QEMUDrive(HardDrive, RealPath(image_file),
                                _create_id_for_driver(drives))
        IN  /\ drives' = Append(drives, drive)
            /\ issued' = Append(issued, drive.id)
    /\ UNCHANGED <<boot_order, cores, ram_size, acceleration_mode, processor,
                   qemu_path, orders, command>>
    /\ UNCHANGED <<parserVars, extractVars>>

ToCommandLine ==
    /\ Configuring
    /\ command' = Some(to_command_line(qemu_path, drives, boot_order, processor,
                                       cores, ram_size, acceleration_mode))
    /\ UNCHANGED <<drives, boot_order, cores, ram_size, acceleration_mode, processor,
                   qemu_path, issued, orders>>
    /\ UNCHANGED <<parserVars, extractVars>>

----------------------------------------------------------------------------
(* One parser on one line *)

Init == ParserInit /\ ExtractorIdle /\ OptionsInit

Next ==
    \/ Construct(1, SoloInputs)
    \/ RunCall(1)
    \/ CharStep(1)
    \/ Return(1)

Spec == Init /\ [][Next]_vars

(* Two parsers, their character steps interleaved *)

PairNext ==
    \/ \E i \in Instances : Construct(i, PairInputs)
    \/ \E i \in Instances : RunCall(i)
    \/ \E i \in Instances : CharStep(i)
    \/ \E i \in Instances : Return(i)

SpecPair == Init /\ [][PairNext]_vars

(* One parser whose run() is called again *)

RerunNext ==
    \/ Construct(1, SoloInputs)
    \/ RunCall(1)
    \/ CharStep(1)
    \/ Return(1)
    \/ RunAgain(1)

SpecRerun == Init /\ [][RerunNext]_vars

(* The parser (object 1) and its copy (object 2) on the same line *)

CopyInputs == {RawInput(l) : l \in SeqsUpTo(Alphabet, MaxCopyLen) \cup SampleLines}

CopiesNext ==
    \/ Construct(1, CopyInputs)
    \/ RunCall(1)
    \/ CharStep(1)
    \/ Return(1)
    \/ ConstructCopy(2, 1)
    \/ RunCallCopy(2)
    \/ CharStepCopy(2)
    \/ ReturnCopy(2)

SpecCopies == Init /\ [][CopiesNext]_vars

----------------------------------------------------------------------------
(* generate_devices_file on one catalog *)

CatalogLines ==
    {<<>>, LineWhitespace, LineHeader, LineOk, LineUnknown, LineNoName, LineEmptyName,
     LineEmptyBus}

\* the two-section sample as the documentation writes it, and in the scanned shape
CatalogEq == <<HeaderA, LineE1000Eq, <<>>, HeaderB, LineVirtioEq>>
CatalogSp == <<HeaderA, LineE1000Sp, <<>>, HeaderB, LineVirtioSp>>

SampleCatalogs ==
    {CatalogEq, CatalogSp,
     <<LineAB, <<>>, LineC>>,
     <<HeaderA, LineNative>>,
     <<HeaderA, LineFooEq>>,
     <<HeaderA, LineNameFooEq>>,
     <<HeaderA, LineNameFooSp>>,
     <<HeaderA, LineNameFooSpComma>>,
     <<HeaderA, LineUpperName>>,
     <<HeaderA, LineOk, <<>>, HeaderB, LineOk, LineUnknown>>}

Catalogs == SeqsUpTo(CatalogLines, MaxLines) \cup SampleCatalogs

ExtractInit ==
    /\ ParserInit
    /\ OptionsInit
    /\ output \in Catalogs
    /\ gen_pc = "start"
    /\ lines = <<>>
    /\ line_index = 0
    /\ current_section = NoneVal
    /\ generated_sections = <<>>
    /\ devices_sections = NoneVal
    /\ bus_file_text = NoneVal
    /\ devices_file_text = NoneVal
    /\ error = NoneVal
    /\ file = NoFile

ExtractNext ==
    \/ CallExtract
    \/ ProcessLine
    \/ ExtractReturn
    \/ GenerateBusText
    \/ GenerateDevicesText
    \/ WriteFile

SpecExtract == ExtractInit /\ [][ExtractNext]_vars

(* One QEMUOptions object *)

OptionsNext ==
    \/ set_cores_count
    \/ set_ram_megabytes
    \/ set_ram_gigabytes
    \/ set_acceleration_mode
    \/ SetBootOrder
    \/ add_cdrom
    \/ add_hard_drive
    \/ ToCommandLine

SpecOptions == Init /\ [][OptionsNext]_vars

----------------------------------------------------------------------------
(* Properties of the parser on one line *)

LineOf(i) == parsers[i].property_line

\* the mapping a field list denotes: each name with the value of its last field
Expected(fields) ==
    [name \in {fields[k].name : k \in 1..Len(fields)} |->
        fields[CHOOSE k \in 1..Len(fields) :
                /\ fields[k].name = name
                /\ \A m \in (k + 1)..Len(fields) : fields[m].name # name].value]

\* C1 as stated: for a line name=value,name="value",... run() returns the mapping
\* from each name on the line to its value, quotes stripped.
C1_EqualsJoinedLine ==
    \A i \in Instances :
        (Done(i) /\ input[i].form = "eq")
            => AsFunction(Result(i)) = Expected(input[i].fields)

\* C1 amended: for a line name value,name "value",... (a space between a name and
\* its value, a comma after every unquoted value) run() returns the mapping from
\* each name on the line to its value, quotes stripped.
C1_SpaceJoinedLine ==
    \A i \in Instances :
        (Done(i) /\ input[i].form = "sp")
            => AsFunction(Result(i)) = Expected(input[i].fields)

C1_Witness ==
    /\ Done(1)
    /\ input[1].form = "sp"
    /\ Len(input[1].fields) = 2
    /\ input[1].fields[1].quoted
    /\ ~input[1].fields[2].quoted
    /\ input[1].fields[1].name # input[1].fields[2].name
    /\ Len(Result(1)) = 2

\* the pairs stored so far, as a mapping: a later store of a name replaces the earlier
CommittedMapping(log) ==
    [name \in {log[k].name : k \in 1..Len(log)} |->
        log[CHOOSE k \in 1..Len(log) :
                /\ log[k].name = name
                /\ \A m \in (k + 1)..Len(log) : log[m].name # name].value]

HasNoDelimiter(line) ==
    \A k \in 1..Len(line) : line[k] # COMMA /\ line[k] # QUOTE

\* C6: at the end of the line the field whose delimiter was never seen is dropped:
\* the mapping returned holds exactly the pairs stored during the scan, and a line
\* with no comma and no double-quote (the empty line, name=abc) gives the empty one.
C6_UnterminatedFieldDropped ==
    \A i \in Instances :
        Done(i) =>
            /\ AsFunction(Result(i)) = CommittedMapping(commits[i])
            /\ HasNoDelimiter(LineOf(i)) => Result(i) = EmptyDict

C6_Witness ==
    /\ Done(1)
    /\ commits[1] # <<>>
    /\ parsers[1].current_state = PROPERTY_VALUE
    /\ ~IsNone(parsers[1].property_name)
    /\ LineOf(1)[Len(LineOf(1))] \notin {COMMA, QUOTE, SPACE}

HasValue(d, value) == \E k \in 1..Len(d) : d[k][2] = value

Abc == <<"a", "b", "c">>
Pci == <<"p", "c", "i">>

\* C7 as stated: on name=abc,,bus=pci (and on the same line joined by spaces) an
\* entry with the empty string as value is stored for the field between the two
\* commas, name keeps abc and bus keeps pci.
C7_EmptyFieldBetweenCommas ==
    \A i \in Instances :
        (Done(i) /\ LineOf(i) \in {LineCommasEq, LineCommasSp}) =>
            /\ HasValue(Result(i), <<>>)
            /\ DictHas(Result(i), KeyName) /\ DictGet(Result(i), KeyName) = Abc
            /\ DictHas(Result(i), KeyBus) /\ DictGet(Result(i), KeyBus) = Pci

\* C7 amended: the second of two consecutive commas stores nothing (after an
\* unquoted value it becomes the first character of the next name: name abc,,bus pci,
\* gives name -> abc and ,bus -> pci); the empty string is stored at a comma only
\* when that comma directly follows the space that ended the name, and for that
\* name only (name a,bus , gives name -> a and bus -> empty).
C7_SecondCommaStoresNothing ==
    \A i \in Instances :
        /\ \A k \in 1..Len(commits[i]) :
            LET at == commits[i][k].index + 1 IN
                /\ LineOf(i)[at] \in {COMMA, QUOTE}
                /\ LineOf(i)[at] = COMMA =>
                    /\ at > 1 /\ LineOf(i)[at - 1] # COMMA
                    /\ (commits[i][k].value = <<>>) => (LineOf(i)[at - 1] = SPACE)
        /\ (Done(i) /\ LineOf(i) = LineCommasSp) =>
                Result(i) = <<<<KeyName, Abc>>, <<<<COMMA>> \o KeyBus, Pci>>>>
        /\ (Done(i) /\ LineOf(i) = LineEmptyBus) =>
                Result(i) = <<<<KeyName, <<"a">>>>, <<KeyBus, <<>>>>>>

C7_Witness ==
    /\ Done(1)
    /\ LineOf(1) = LineCommasSp
    /\ Len(commits[1]) = 2

----------------------------------------------------------------------------
(* Properties of _extract_devices and generate_devices_file *)

Str_e1000 == <<"e", "1", "0", "0", "0">>
Str_IntelE1000 == <<"I", "n", "t", "e", "l", SPACE, "E", "1", "0", "0", "0">>
Str_virtio_net_pci ==
    <<"v", "i", "r", "t", "i", "o", "-", "n", "e", "t", "-", "p", "c", "i">>
Str_virtio_bus == <<"v", "i", "r", "t", "i", "o", "-", "b", "u", "s">>

\* what the two-section sample stands for
SampleSections ==
    <<[section_name |-> HeaderA,
       devices |-> <<[name |-> Str_e1000, description |-> Some(Str_IntelE1000),
                      bus |-> Some(Pci), alias |-> NoneVal]>>],
      [section_name |-> HeaderB,
       devices |-> <<[name |-> Str_virtio_net_pci, description |-> NoneVal,
                      bus |-> Some(Str_virtio_bus), alias |-> NoneVal]>>]>>

\* _extract_devices has returned or raised
ExtractEnded == ~IsNone(devices_sections) \/ gen_pc = "raised"

\* C2 as stated: the two-section sample with the device lines
\* name=e1000,desc="Intel E1000",bus=pci and name=virtio-net-pci,bus=virtio-bus is
\* extracted without error into two sections of one device each, fields as given.
C2_SampleWithEquals ==
    output = CatalogEq =>
        /\ IsNone(error)
        /\ ExtractEnded => devices_sections = Some(SampleSections)

\* C2 amended: the same sample with its device lines written
\* name e1000, desc "Intel E1000", bus pci, and name virtio-net-pci, bus virtio-bus,
\* is extracted without error into two sections of one device each, fields as
\* given, alias (and description for B) absent; written with = the extraction
\* raises the missing-name error at the first device line.
C2_SampleWithSpaces ==
    /\ output = CatalogSp =>
        /\ IsNone(error)
        /\ ExtractEnded => devices_sections = Some(SampleSections)
    /\ (output = CatalogEq /\ line_index >= 2) =>
        /\ error = Some(NameNone)
        /\ line_index = 2
        /\ IsNone(devices_sections)

C2_Witness ==
    /\ output = CatalogSp
    /\ devices_sections = Some(SampleSections)
    /\ gen_pc = "done"

Recognized(key) ==
    \E prefix \in {KeyName, KeyBus, KeyDesc, KeyAlias} : StartsWith(key, prefix)

AllWhitespace(line) == \A k \in 1..Len(line) : line[k] \in {SPACE, TAB}

\* line k is the first line of a maximal run of non-blank lines
StartsRun(ls, k) ==
    /\ ~AllWhitespace(ls[k])
    /\ k = 1 \/ AllWhitespace(ls[k - 1])

\* line k is a device line: not blank, and not the first of its run
IsDeviceLine(ls, k) ==
    /\ ~AllWhitespace(ls[k])
    /\ k > 1 /\ ~AllWhitespace(ls[k - 1])

\* the places of the keys of d with no recognized prefix
UnknownAt(d) == {k \in 1..Len(d) : ~Recognized(d[k][1])}

FirstUnknown(d) == d[CHOOSE k \in UnknownAt(d) : \A m \in UnknownAt(d) : k <= m]

KeyFoo == <<"f", "o", "o">>
Bar == <<"b", "a", "r">>

FooCatalogs ==
    {<<HeaderA, LineFooEq>>, <<HeaderA, LineNameFooEq>>, <<HeaderA, LineNameFooSp>>,
     <<HeaderA, LineNameFooSpComma>>}

\* C3 as stated: a device line containing the property foo=bar (foo bar) makes
\* _extract_devices raise an error naming that property; it never returns.
C3_UnknownPropertyOnLine ==
    output \in FooCatalogs =>
        /\ IsNone(devices_sections)
        /\ gen_pc = "raised" => error = Some(UnrecognizedFormat(KeyFoo, Bar))

\* C3 amended: when the mapping run() returns for a device line has a key with
\* none of the prefixes name, bus, desc, alias, _extract_devices raises
\* "Unrecognized device format" with the first such key and its value, and never
\* returns; a property run() does not return is not detected.
C3_UnknownKeyInMapping ==
    /\ (gen_pc \in {"loop", "raised"} /\ line_index >= 1
            /\ IsDeviceLine(lines, line_index)
            /\ UnknownAt(RunParser(Strip(lines[line_index]))) # {}) =>
        LET item == FirstUnknown(RunParser(Strip(lines[line_index]))) IN
            /\ gen_pc = "raised"
            /\ error = Some(UnrecognizedFormat(item[1], item[2]))
    /\ ~IsNone(devices_sections) =>
        \A k \in 1..Len(lines) :
            IsDeviceLine(lines, k) => UnknownAt(RunParser(Strip(lines[k]))) = {}
    /\ (output = <<HeaderA, LineNameFooSp>> /\ ExtractEnded) =>
        /\ IsNone(error)
        /\ Get(devices_sections)[1].devices =
                <<[_QEMUGeneratedDevice EXCEPT !.name = <<"a">>]>>

C3_Witness ==
    /\ gen_pc = "raised"
    /\ output = <<HeaderA, LineNameFooSpComma>>
    /\ error = Some(UnrecognizedFormat(KeyFoo, Bar))

AllSections ==
    {generated_sections[k] : k \in 1..Len(generated_sections)}
        \cup (IF IsNone(devices_sections) THEN {}
              ELSE {Get(devices_sections)[k] : k \in 1..Len(Get(devices_sections))})

\* the value the last key of d starting with name maps to, or the default ""
NameIn(d) ==
    LET at == {k \in 1..Len(d) : StartsWith(d[k][1], KeyName)}
    IN  IF at = {} THEN <<>> ELSE d[CHOOSE k \in at : \A m \in at : m <= k][2]

\* C4: every device of every section has a non-empty name; a device line whose
\* properties leave the name empty makes the extraction raise instead.
C4_NameNeverEmpty ==
    /\ \A section \in AllSections :
        \A d \in 1..Len(section.devices) : section.devices[d].name # <<>>
    /\ (gen_pc \in {"loop", "raised"} /\ line_index >= 1
            /\ IsDeviceLine(lines, line_index)
            /\ UnknownAt(RunParser(Strip(lines[line_index]))) = {}
            /\ NameIn(RunParser(Strip(lines[line_index]))) = <<>>) =>
        /\ gen_pc = "raised"
        /\ error = Some(NameNone)

C4_Witness ==
    /\ error = Some(NameNone)
    /\ lines[line_index] = LineEmptyName
    /\ \E section \in AllSections : Len(section.devices) > 0

\* the places where a maximal run of non-blank lines starts, in order
RECURSIVE RunStartsFrom(_, _)
RunStartsFrom(ls, k) ==
    IF k > Len(ls) THEN <<>>
    ELSE (IF StartsRun(ls, k) THEN <<k>> ELSE <<>>) \o RunStartsFrom(ls, k + 1)

\* the number of lines of the run starting at k
RECURSIVE RunLength(_, _)
RunLength(ls, k) ==
    IF k > Len(ls) \/ AllWhitespace(ls[k]) THEN 0 ELSE 1 + RunLength(ls, k + 1)

\* C5: when extraction succeeds there is one section per maximal run of non-blank
\* lines, labelled by the untrimmed first line of the run, and the lines of the
\* run after the first, and no others, are its devices: a=1,b=2 / blank / c=3
\* gives two sections labelled by those two lines.
C5_OneSectionPerRun ==
    ~IsNone(devices_sections) =>
        LET starts == RunStartsFrom(lines, 1)
            sections == Get(devices_sections)
        IN  /\ Len(sections) = Len(starts)
            /\ \A s \in 1..Len(starts) :
                /\ sections[s].section_name = lines[starts[s]]
                /\ Len(sections[s].devices) = RunLength(lines, starts[s]) - 1
            /\ output = <<LineAB, <<>>, LineC>> =>
                sections = <<[section_name |-> LineAB, devices |-> <<>>],
                             [section_name |-> LineC, devices |-> <<>>]>>

C5_Witness ==
    /\ ~IsNone(devices_sections)
    /\ Len(Get(devices_sections)) = 2
    /\ \E k \in 1..Len(lines) : lines[k] = LineWhitespace
    /\ Get(devices_sections)[1].section_name = LineHeader
    /\ Len(Get(devices_sections)[2].devices) = 1

\* C8: when a device line raises the unknown-key or the missing-name error,
\* _extract_devices returns nothing, the sections built before the line included,
\* and generate_devices_file neither generates text nor opens or writes the file;
\* the file is opened only once both texts are there.
C8_NoPartialResult ==
    /\ (~IsNone(error) /\ Get(error).message \in
            {"Unrecognized device format", "device_name property None"}) =>
        /\ IsNone(devices_sections)
        /\ IsNone(bus_file_text) /\ IsNone(devices_file_text)
        /\ file = NoFile
        /\ gen_pc = "raised"
    /\ file.opened =>
        /\ IsNone(error)
        /\ ~IsNone(devices_sections) /\ ~IsNone(bus_file_text) /\ ~IsNone(devices_file_text)

C8_Witness ==
    /\ gen_pc = "raised"
    /\ Get(error).message = "Unrecognized device format"
    /\ Len(generated_sections) = 2
    /\ Len(generated_sections[1].devices) > 0
    /\ IsNone(devices_sections)
    /\ ~file.opened

----------------------------------------------------------------------------
(* Properties of two parser objects *)

\* C9: two new parser objects given the same line go through the same states and
\* return equal mappings, and an object just built is in the initial state with
\* an empty mapping whatever another object has parsed before.
C9_FreshInstancesAgree ==
    /\ \A i, j \in Instances :
        (Done(i) /\ Done(j) /\ LineOf(i) = LineOf(j)) =>
            /\ trace[i] = trace[j]
            /\ Result(i) = Result(j)
    /\ \A i \in Instances :
        (Constructed(i) /\ calls[i].pc = "idle") =>
            Load(i) = NewExtractor(input[i].line, EmptyDict)

C9_Witness ==
    /\ Done(1) /\ Done(2)
    /\ LineOf(1) = LineOf(2)
    /\ Result(1) # EmptyDict
    /\ trace[1] = trace[2]

\* C10: under every interleaving each object returns the mapping it returns when
\* run alone, the two objects hold different dicts, and every entry of an
\* object's dict was stored by that object.
C10_NoSharedState ==
    /\ \A i \in Instances :
        Constructed(i) =>
            /\ \A k \in 1..Len(Load(i).extracted_properties) :
                \E c \in 1..Len(commits[i]) :
                    /\ commits[i][c].name = Load(i).extracted_properties[k][1]
                    /\ commits[i][c].value = Load(i).extracted_properties[k][2]
            /\ Done(i) => Result(i) = RunParser(LineOf(i))
    /\ (Constructed(1) /\ Constructed(2)) =>
        parsers[1].extracted_properties # parsers[2].extracted_properties

C10_Witness ==
    /\ Done(1) /\ Done(2)
    /\ Result(1) # EmptyDict
    /\ Result(2) # EmptyDict
    /\ Result(1) # Result(2)

(* C11 *)

\* no double-quote among the characters of value
QuoteFree(value) == \A k \in 1..Len(value) : value[k] # QUOTE

\* C11: a value committed at a closing double-quote contains no double-quote,
\* and the parser is in VALUE_IN_QUOTES only after a double-quote that is the
\* first character of the value.
C11_QuoteOpensValue ==
    \A i \in Instances :
        Constructed(i) =>
            /\ \A c \in 1..Len(commits[i]) :
                LineOf(i)[commits[i][c].index + 1] = QUOTE
                    => QuoteFree(commits[i][c].value)
            /\ parsers[i].current_state = PROPERTY_VALUE_IN_QUOTES
                => LineOf(i)[parsers[i].value_start_index + 1] = QUOTE

(* C12 *)

\* the character the next step of run() on object i reads
CharAt(i) == LineOf(i)[calls[i].index + 1]

\* object i is about to process a character that closes a value
ClosesValue(i) ==
    /\ calls[i].pc = "loop"
    /\ calls[i].index < Len(LineOf(i))
    /\ \/ parsers[i].current_state = PROPERTY_VALUE /\ CharAt(i) = COMMA
       \/ parsers[i].current_state = PROPERTY_VALUE_IN_QUOTES /\ CharAt(i) = QUOTE

\* C12: the returned mapping gains or changes an entry only in a step that
\* processes a comma in VALUE or a double-quote in VALUE_IN_QUOTES (so never in
\* NAME, NAME_SEARCH or POST_VALUE), and after every step the pending name and
\* the pending value are not both set.
C12_StoresOnlyAtDelimiter ==
    /\ [](\A i \in Instances : Constructed(i) => ~PairComplete(parsers[i]))
    /\ [][\A i \in Instances :
            (Constructed(i) /\
                heap'[parsers[i].extracted_properties]
                    # heap[parsers[i].extracted_properties])
                => ClosesValue(i)]_vars

C12_Witness ==
    /\ Done(1)
    /\ \E c \in 1..Len(commits[1]) : LineOf(1)[commits[1][c].index + 1] = COMMA
    /\ \E c \in 1..Len(commits[1]) : LineOf(1)[commits[1][c].index + 1] = QUOTE
    /\ Len(Result(1)) = Len(commits[1])

(* C13 *)

\* the transitions of the state machine: from state s, character ch leads to t
Moves(s, ch, t) ==
    \/ s = PROPERTY_NAME /\ ch = SPACE /\ t = PROPERTY_VALUE
    \/ s = PROPERTY_VALUE /\ ch = COMMA /\ t = PROPERTY_NAME_SEARCH
    \/ s = PROPERTY_VALUE /\ ch = QUOTE /\ t = PROPERTY_VALUE_IN_QUOTES
    \/ s = PROPERTY_VALUE_IN_QUOTES /\ ch = QUOTE /\ t = PROPERTY_POST_VALUE
    \/ s = PROPERTY_POST_VALUE /\ ch = COMMA /\ t = PROPERTY_NAME_SEARCH
    \/ s = PROPERTY_NAME_SEARCH /\ ch # SPACE /\ t = PROPERTY_NAME

\* object i is about to process a character
AtCharacter(i) ==
    /\ calls[i].pc = "loop"
    /\ calls[i].index < Len(LineOf(i))

\* the step leaves the fields and the mapping of object i as they are
Ignored(i) ==
    /\ parsers'[i] = parsers[i]
    /\ heap'[parsers[i].extracted_properties] = heap[parsers[i].extracted_properties]

\* C13: the parser starts in NAME; its state changes only along NAME -> VALUE on
\* a space, VALUE -> NAME_SEARCH on a comma, VALUE -> VALUE_IN_QUOTES on a
\* double-quote, VALUE_IN_QUOTES -> POST_VALUE on a double-quote, POST_VALUE ->
\* NAME_SEARCH on a comma, NAME_SEARCH -> NAME on a non-space; every other
\* character leaves the state unchanged; a comma in VALUE_IN_QUOTES changes
\* nothing and stores nothing; a non-comma in POST_VALUE is ignored.
C13_StateMachine ==
    /\ [](\A i \in Instances :
            (Constructed(i) /\ calls[i].pc = "idle")
                => parsers[i].current_state = PROPERTY_NAME)
    /\ [][\A i \in Instances :
            Constructed(i) =>
                LET s == parsers[i].current_state
                    t == parsers'[i].current_state
                IN
                /\ t # s => (AtCharacter(i) /\ Moves(s, CharAt(i), t))
                /\ AtCharacter(i) =>
                    /\ (\A u \in State : ~Moves(s, CharAt(i), u)) => t = s
                    /\ (s = PROPERTY_VALUE_IN_QUOTES /\ CharAt(i) = COMMA)
                        => Ignored(i)
                    /\ (s = PROPERTY_POST_VALUE /\ CharAt(i) # COMMA)
                        => Ignored(i)]_vars

\* a finished pass that visited every state, read a comma inside quotes and a
\* character other than a comma after the closing double-quote
C13_Witness ==
    /\ Done(1)
    /\ {trace[1][k] : k \in 1..Len(trace[1])} = State
    /\ \E k \in 2..Len(trace[1]) :
        /\ trace[1][k - 1] = PROPERTY_VALUE_IN_QUOTES
        /\ trace[1][k] = PROPERTY_VALUE_IN_QUOTES
        /\ LineOf(1)[k] = COMMA
    /\ \E k \in 2..Len(trace[1]) :
        /\ trace[1][k - 1] = PROPERTY_POST_VALUE
        /\ trace[1][k] = PROPERTY_POST_VALUE

(* C14 *)

\* no two fields of the list have the same name
DistinctNames(fields) ==
    \A k, m \in 1..Len(fields) : fields[k].name = fields[m].name => k = m

\* field k is quoted, or unquoted with a comma after it
Closed(fields, k) == fields[k].quoted \/ fields[k].sep # <<>>

\* the mapping of a line in the native shape: every closed field, by name
NativeMapping(fields) ==
    [name \in {fields[k].name : k \in {m \in 1..Len(fields) : Closed(fields, m)}} |->
        fields[CHOOSE k \in 1..Len(fields) : fields[k].name = name].value]

\* C14: for a line of fields "name value" with distinct names, separated by a
\* comma and spaces, each value either "q" in double-quotes or unquoted text u,
\* run() returns exactly name -> q for every quoted field and name -> u for every
\* unquoted field followed by a comma; a last unquoted field with no comma after
\* it is the only field left out.
C14_NativeShape ==
    \A i \in Instances :
        (Done(i) /\ input[i].form \in {"sp", "open"}
                 /\ DistinctNames(input[i].fields))
            => /\ AsFunction(Result(i)) = NativeMapping(input[i].fields)
               /\ \A k \in 1..Len(input[i].fields) :
                    ~DictHas(Result(i), input[i].fields[k].name)
                        => /\ k = Len(input[i].fields)
                           /\ input[i].form = "open"

\* a finished pass over  a "a,a", b a a  : the quoted field is kept, the open
\* last field is left out
C14_Witness ==
    /\ Done(1)
    /\ input[1].form = "open"
    /\ Len(input[1].fields) = 2
    /\ DistinctNames(input[1].fields)
    /\ input[1].fields[1].quoted
    /\ input[1].fields[1].value = <<"a", COMMA, "a">>
    /\ input[1].fields[1].sep = <<COMMA, SPACE>>
    /\ input[1].fields[2].value = <<"a", SPACE, "a">>
    /\ Len(Result(1)) = 1

(* C15 *)

\* the value the last key of d starting with prefix maps to, or None
ValueIn(d, prefix) ==
    LET at == {k \in 1..Len(d) : StartsWith(d[k][1], prefix)}
    IN  IF at = {} THEN NoneVal ELSE Some(d[CHOOSE k \in at : \A m \in at : m <= k][2])

\* the line device d of section s was made from
DeviceLine(s, d) == lines[RunStartsFrom(lines, 1)[s] + d]

Str_Name_Capital == <<"N", "a", "m", "e">>

\* C15: the descriptor appended for a device line has the values of the keys
\* starting with name, bus, desc and alias as its name, bus, description and
\* alias, a field with no such key keeps its default ("" for the name, None for
\* the others), and every key of the line has one of the four prefixes; the
\* line  Name a,  is fatal, its key reported as unrecognized.
C15_FieldsByPrefix ==
    /\ \A s \in 1..Len(generated_sections) :
        \A d \in 1..Len(generated_sections[s].devices) :
            LET properties == RunParser(Strip(DeviceLine(s, d)))
                device == generated_sections[s].devices[d]
            IN  /\ UnknownAt(properties) = {}
                /\ device.name = NameIn(properties)
                /\ device.bus = ValueIn(properties, KeyBus)
                /\ device.description = ValueIn(properties, KeyDesc)
                /\ device.alias = ValueIn(properties, KeyAlias)
    /\ (output = <<HeaderA, LineUpperName>> /\ ExtractEnded) =>
        /\ gen_pc = "raised"
        /\ error = Some(UnrecognizedFormat(Str_Name_Capital, <<"a">>))

\* the native line gave a device with all four fields, and another catalog a
\* device with the name alone
C15_Witness ==
    /\ output = <<HeaderA, LineNative>>
    /\ Len(generated_sections) = 1
    /\ Len(generated_sections[1].devices) = 1
    /\ generated_sections[1].devices[1].name = Str_e1000
    /\ ~IsNone(generated_sections[1].devices[1].bus)
    /\ ~IsNone(generated_sections[1].devices[1].description)
    /\ ~IsNone(generated_sections[1].devices[1].alias)
    /\ generated_sections[1].devices[1].alias
        # generated_sections[1].devices[1].description

(* C16 *)

\* C16: when extraction succeeds, the devices of each section are, in order, one
\* descriptor for each non-blank line of its run after the first; the first
\* line of a run is never parsed: it gives no descriptor and no error, whatever
\* it contains (an error is always that of a device line).
C16_DevicesInLineOrder ==
    /\ ~IsNone(devices_sections) =>
        LET starts == RunStartsFrom(lines, 1)
            sections == Get(devices_sections)
        IN  \A s \in 1..Len(sections) :
                /\ Len(sections[s].devices) = RunLength(lines, starts[s]) - 1
                /\ \A d \in 1..Len(sections[s].devices) :
                    LET properties == RunParser(Strip(lines[starts[s] + d]))
                    IN  /\ sections[s].devices[d].name = NameIn(properties)
                        /\ sections[s].devices[d].bus = ValueIn(properties, KeyBus)
    /\ (gen_pc = "raised" /\ IsNone(devices_sections)) =>
        /\ IsDeviceLine(lines, line_index)
        /\ ~StartsRun(lines, line_index)
    /\ (ExtractEnded /\ Len(lines) >= 1 /\ lines[1] = LineUnknown
            /\ \A k \in 2..Len(lines) : lines[k] \in {LineOk, LineEmptyBus}) =>
        /\ ~IsNone(devices_sections)
        /\ Get(devices_sections)[1].section_name = LineUnknown
        /\ Len(Get(devices_sections)[1].devices) = Len(lines) - 1

\* a run headed by a line that is fatal as a device line, followed by two
\* device lines that give different descriptors
C16_Witness ==
    /\ ~IsNone(devices_sections)
    /\ lines = <<LineUnknown, LineOk, LineEmptyBus>>
    /\ Len(Get(devices_sections)) = 1
    /\ Len(Get(devices_sections)[1].devices) = 2
    /\ Get(devices_sections)[1].devices[1] # Get(devices_sections)[1].devices[2]

(* C17 *)

SpaceFree(key) == \A k \in 1..Len(key) : key[k] # SPACE

\* C17: no key of the mapping run() returns contains a space; every key is
\* non-empty when the line does not begin with a space; a name stored after a
\* comma starts at the first character after the comma that is not a space.
C17_KeysHaveNoSpace ==
    \A i \in Instances :
        Done(i) =>
            /\ \A k \in 1..Len(Result(i)) :
                /\ SpaceFree(Result(i)[k][1])
                /\ (LineOf(i) # <<>> /\ LineOf(i)[1] # SPACE)
                    => Result(i)[k][1] # <<>>
            /\ \A c \in 2..Len(commits[i]) :
                LET name == commits[i][c].name
                    \* the place (1-based) of the comma this name was searched from
                    comma == CHOOSE k \in 1..Len(LineOf(i)) :
                        /\ trace[i][k] = PROPERTY_NAME_SEARCH
                        /\ k = 1 \/ trace[i][k - 1] # PROPERTY_NAME_SEARCH
                        /\ Cardinality({m \in 1..k :
                                /\ trace[i][m] = PROPERTY_NAME_SEARCH
                                /\ m = 1 \/ trace[i][m - 1] # PROPERTY_NAME_SEARCH})
                            = c - 1
                IN  \E spaces \in 0..Len(LineOf(i)) :
                        /\ \A m \in (comma + 1)..(comma + spaces) : LineOf(i)[m] = SPACE
                        /\ Slice(LineOf(i), comma + spaces, comma + spaces + Len(name))
                            = name
                        /\ name # <<>>
                        /\ SpaceFree(name)

\* a finished pass whose second name came after a comma and a space
C17_Witness ==
    /\ Done(1)
    /\ Len(Result(1)) = 2
    /\ Len(commits[1]) = 2
    /\ \E k \in 2..Len(LineOf(1)) :
        /\ LineOf(1)[k - 1] = COMMA
        /\ LineOf(1)[k] = SPACE
        /\ trace[1][k] = PROPERTY_NAME_SEARCH

(* C18 *)

\* the places in the log of the stores under name
StoresOf(log, name) == {c \in 1..Len(log) : log[c].name = name}

\* C18: the keys of the returned mapping are pairwise different, each stored
\* name is a key, and a name stored more than once maps to the value of its
\* last store.
C18_LastStoreWins ==
    \A i \in Instances :
        Done(i) =>
            /\ \A k, m \in 1..Len(Result(i)) :
                Result(i)[k][1] = Result(i)[m][1] => k = m
            /\ \A c \in 1..Len(commits[i]) :
                LET name == commits[i][c].name
                    last == CHOOSE x \in StoresOf(commits[i], name) :
                                \A y \in StoresOf(commits[i], name) : y <= x
                IN  /\ DictHas(Result(i), name)
                    /\ DictGet(Result(i), name) = commits[i][last].value

\* a finished pass that stored one name twice, with different values
C18_Witness ==
    /\ Done(1)
    /\ Len(commits[1]) = 2
    /\ commits[1][1].name = commits[1][2].name
    /\ commits[1][1].value # commits[1][2].value
    /\ Len(Result(1)) = 1

(* C19 *)

\* C19: in the devices file text the alias argument of a device is the literal
\* None exactly when the device has no alias, and the alias in double-quotes
\* otherwise, whether or not the device has a description.
C19_AliasRenderedFromAlias ==
    (~IsNone(devices_file_text) /\ ~IsNone(devices_sections)) =>
        \A s \in 1..Len(Get(devices_sections)) :
            \A d \in 1..Len(Get(devices_sections)[s].devices) :
                LET device == Get(devices_sections)[s].devices[d]
                    rendered == Get(devices_file_text)[s].tuple_lines[d].device_alias
                IN  /\ rendered = NoneLiteral <=> IsNone(device.alias)
                    /\ ~IsNone(device.alias) =>
                        rendered = <<QUOTE>> \o Get(device.alias) \o <<QUOTE>>

(* C20 *)

\* the number of run() calls made on object i
Runs(i) == calls[i].runs

\* the state the first pass of object i ended in
FirstPassEnd(i) ==
    IF LineOf(i) = <<>> THEN PROPERTY_NAME ELSE trace[i][Len(LineOf(i))]

\* C20 as stated: a second run() on the same object returns a mapping equal to
\* the one its first run() returned, for every line.
C20_SecondRunEqual ==
    \A i \in Instances :
        (Done(i) /\ Runs(i) >= 2)
            => AsFunction(Result(i)) = AsFunction(RunParser(LineOf(i)))

\* C20 amended: the first run() returns the mapping of a fresh parse; a later
\* run() on the same object returns the same dict, never with fewer keys, and
\* with the same entries in the same order when the first pass ended in
\* NAME_SEARCH (after the comma that closed the last field) on a line that does
\* not begin with a space.
C20_RerunAfterClosedLine ==
    \A i \in Instances :
        Done(i) =>
            /\ Runs(i) = 1 => Result(i) = RunParser(LineOf(i))
            /\ DictKeys(RunParser(LineOf(i))) \subseteq DictKeys(Result(i))
            /\ (Runs(i) >= 2 /\ FirstPassEnd(i) = PROPERTY_NAME_SEARCH
                    /\ LineOf(i)[1] # SPACE)
                => Result(i) = RunParser(LineOf(i))

\* a second run() ended on a line whose first pass ended in NAME_SEARCH and
\* stored two entries
C20_Witness ==
    /\ Done(1)
    /\ Runs(1) = 2
    /\ FirstPassEnd(1) = PROPERTY_NAME_SEARCH
    /\ LineOf(1)[1] # SPACE
    /\ Len(trace[1]) = 2 * Len(LineOf(1))
    /\ Len(commits[1]) = 4
    /\ Len(Result(1)) = 2

(* C21 *)

\* the shorter of two lengths
Shorter(a, b) == IF a <= b THEN a ELSE b

\* C21: on the same line the parser and its copy in qemu_python_interface.py
\* pass through the same states, store the same pairs at the same characters,
\* have the same state, offsets, pending name, pending value and mapping after
\* the same number of characters, and return equal mappings.
C21_CopiesAgree ==
    (Constructed(1) /\ Constructed(2)) =>
        /\ LineOf(1) = LineOf(2)
        /\ \A k \in 1..Shorter(Len(trace[1]), Len(trace[2])) :
            trace[1][k] = trace[2][k]
        /\ \A c \in 1..Shorter(Len(commits[1]), Len(commits[2])) :
            commits[1][c] = commits[2][c]
        /\ calls[1].index = calls[2].index => Load(1) = Load(2)
        /\ (Done(1) /\ Done(2)) =>
            /\ Result(1) = Result(2)
            /\ trace[1] = trace[2]
            /\ commits[1] = commits[2]

\* both have returned on  a "b,c" d, e f,  : every state visited, two pairs stored
C21_Witness ==
    /\ Done(1) /\ Done(2)
    /\ LineOf(2) = LineTrailing
    /\ {trace[2][k] : k \in 1..Len(trace[2])} = State
    /\ Len(Result(2)) = 2
    /\ parsers[1].extracted_properties # parsers[2].extracted_properties

----------------------------------------------------------------------------
(* Properties of QEMUOptions *)

(* C22 *)

Str_drive_0 == <<"d", "r", "i", "v", "e", "_", "0">>
Str_drive_1 == <<"d", "r", "i", "v", "e", "_", "1">>
Str_drive_2 == <<"d", "r", "i", "v", "e", "_", "2">>
Str_drive_3 == <<"d", "r", "i", "v", "e", "_", "3">>
Str_drive_4 == <<"d", "r", "i", "v", "e", "_", "4">>

\* the ids the first calls are to return, in order
IdsInOrder == <<Str_drive_0, Str_drive_1, Str_drive_2, Str_drive_3, Str_drive_4>>

\* C22: after any sequence of add_cdrom and add_hard_drive calls the ids of the
\* registered drives are pairwise different, and the n-th call returned the id
\* drive_<n-1>, which is the id of the n-th drive.
C22_DriveIdsDistinct ==
    /\ \A k, m \in 1..Len(drives) : drives[k].id = drives[m].id => k = m
    /\ Len(issued) = Len(drives)
    /\ \A n \in 1..Len(issued) :
        /\ issued[n] = IdsInOrder[n]
        /\ drives[n].id = issued[n]

\* three drives of both classes were added
C22_Witness ==
    /\ Len(drives) = 3
    /\ issued = <<Str_drive_0, Str_drive_1, Str_drive_2>>
    /\ \E k \in 1..3 : drives[k].type = CDRom
    /\ \E k \in 1..3 : drives[k].type = HardDrive

(* C23 *)

Str_cd == <<"c", "d">>

\* the ids given to set_boot_order, as str orders them
BootIdsInOrder == <<Str_cd, Str_drive_0, Str_drive_1>>

PlaceOf(id) == CHOOSE k \in 1..Len(BootIdsInOrder) : BootIdsInOrder[k] = id

\* the places in the log of the set_boot_order calls for drive_id
CallsFor(drive_id) == {c \in 1..Len(orders) : orders[c].drive_id = drive_id}

\* the number of bootindex parameters of an argument of the command
BootIndexCount(argument) ==
    Cardinality({p \in 1..Len(argument.parameters) :
                    argument.parameters[p][1] = "bootindex"})

\* C23: after any sequence of set_boot_order calls the boot-order list has one
\* entry for each drive id given and no two for the same id, each entry has the
\* index of the last call for its id, and the list is sorted by drive id; the
\* command to_command_line returns has one -device argument per drive, with at
\* most one bootindex, that of the drive's entry.
C23_OneEntryPerDrive ==
    /\ \A k, m \in 1..Len(boot_order) :
        boot_order[k].drive_id = boot_order[m].drive_id => k = m
    /\ {boot_order[k].drive_id : k \in 1..Len(boot_order)}
        = {orders[c].drive_id : c \in 1..Len(orders)}
    /\ \A k \in 1..Len(boot_order) :
        LET mine == CallsFor(boot_order[k].drive_id)
            last == CHOOSE c \in mine : \A x \in mine : x <= c
        IN  boot_order[k].index = orders[last].index
    /\ \A k \in 1..(Len(boot_order) - 1) :
        PlaceOf(boot_order[k].drive_id) < PlaceOf(boot_order[k + 1].drive_id)
    /\ command # NoneVal =>
        /\ \A a \in 1..Len(Get(command)) : BootIndexCount(Get(command)[a]) <= 1
        /\ \A d \in 1..Len(drives) :
            LET device == Get(command)[2 * d + 1]
                mine == CallsFor(drives[d].id)
            IN  /\ device.option = "-device"
                /\ device.parameters[2] = <<"drive", drives[d].id>>
                /\ BootIndexCount(device) = (IF mine = {} THEN 0 ELSE 1)

\* three calls, the second for an id that sorts before the first's, the third
\* changing the index of the first; the command has the bootindex of both drives
C23_Witness ==
    /\ Len(orders) = 3
    /\ orders[1] = [drive_id |-> Str_drive_1, index |-> 0]
    /\ orders[2] = [drive_id |-> Str_drive_0, index |-> 0]
    /\ orders[3] = [drive_id |-> Str_drive_1, index |-> 1]
    /\ boot_order = <<[drive_id |-> Str_drive_0, index |-> 0],
                      [drive_id |-> Str_drive_1, index |-> 1]>>
    /\ Len(drives) = 2
    /\ command # NoneVal
    /\ BootIndexCount(Get(command)[3]) = 1
    /\ BootIndexCount(Get(command)[5]) = 1

====
